---------------------------- MODULE Spec2Model ----------------------------
(***************************************************************************)
(* Model of mygeotab_async.AsyncAPI: the session / re-authentication       *)
(* life cycle of call() and authenticate() on one client, with several     *)
(* coroutines ("tasks") of one event loop using the client.  A step of the *)
(* model is the code a coroutine runs between two suspension points; the   *)
(* only suspension point is the network round trip of _query.              *)
(***************************************************************************)
EXTENDS Integers, Sequences, FiniteSets, TLC

(* ------------------------------ bounds -------------------------------- *)

\* top-level invocations started on the client during one run
MaxCalls == 3

\* nesting of call() inside call() (the retry at line 77) that is explored
MaxDepth == 2

\* pairs in one multi_call
MaxBatch == 2

\* coroutines sharing the client
Tasks == {1, 2}

\* the one coroutine of the sequential specification
SeqTasks == {1}

(* --------------------------- Python values ---------------------------- *)

\* None
NoneV == [tag |-> "none"]

\* a str
Str(s) == [tag |-> "str", s |-> s]

\* a dict, d a function from its keys to values
Dict(d) == [tag |-> "dict", d |-> d]

\* {}
EmptyMap == [k \in {} |-> NoneV]

\* d[k] = v on a copy of mapping d
Put(d, k, v) == [x \in (DOMAIN d) \cup {k} |-> IF x = k THEN v ELSE d[x]]

\* d.get(k, None)
Lookup(d, k) == IF k \in DOMAIN d THEN d[k] ELSE NoneV

\* del d[k] on a copy of mapping d
Remove(d, k) == [x \in (DOMAIN d) \ {k} |-> d[x]]

\* True / False
Bool(b) == [tag |-> "bool", b |-> b]

\* an int
IntV(i) == [tag |-> "int", i |-> i]

\* a list or tuple, l the sequence of its items
List(l) == [tag |-> "list", l |-> l]

\* bool(v) of a value
Truthy(v) ==
    CASE v.tag = "none" -> FALSE
      [] v.tag = "bool" -> v.b
      [] v.tag = "int"  -> v.i # 0
      [] v.tag = "str"  -> v.s # ""
      [] v.tag = "list" -> v.l # <<>>
      [] v.tag = "dict" -> DOMAIN v.d # {}

(* ------------------------- values of the runs ------------------------- *)

IUE == "InvalidUserException"

FaultNames == {IUE, "DbUnavailableException"}

Messages == {"m1", "m2"}

ResultValues == {Str("r1"), Str("r2")}

SessionIds == {"s1", "s2"}

Paths == {"ThisServer", "my23.geotab.com"}

DefaultServer == "my.geotab.com"

\* the arguments call() is invoked with
Methods == {NoneV, Str(""), Str("Get")}

TypeNames == {NoneV, Str("Device")}

Kwargs == {EmptyMap, Put(EmptyMap, "search", Str("x"))}

\* the **parameters search() is invoked with
SearchKwargs ==
    {EmptyMap,
     Put(EmptyMap, "name", Str("x")),
     Put(EmptyMap, "resultsLimit", IntV(5)),
     Put(Put(EmptyMap, "name", Str("x")), "resultsLimit", IntV(5)),
     Put(Put(EmptyMap, "name", Str("x")), "resultsLimit", NoneV)}

\* the 2-tuples multi_call() is invoked with, and the argument lists made of them
CallPairs ==
    {List(<<Str("Get"), Dict(Put(EmptyMap, "typeName", Str("Trip")))>>),
     List(<<Str("Add"), Dict(Put(EmptyMap, "typeName", Str("Device")))>>)}

CallLists == UNION {[1..n -> CallPairs] : n \in 0..MaxBatch}

\* the arguments the constructor is invoked with: a password, a session or both
CtorArgs ==
    {a \in [password : {NoneV, Str("pw")}, session_id : {NoneV, Str("s0")}] :
        ~(a.password = NoneV /\ a.session_id = NoneV)}

(* ---------------------------- Credentials ----------------------------- *)

Credentials(username, session_id, database, server, password) ==
    [username |-> username, session_id |-> session_id, database |-> database,
     server |-> server, password |-> password]

get_param(c) ==
    Dict(Put(Put(Put(EmptyMap, "userName", c.username),
                 "sessionId", c.session_id), "database", c.database))

(* ------------------------------ _query -------------------------------- *)

\* the request _query posts to self._api_url: the envelope without its constant id
Request(url, method, parameters) ==
    [url |-> url, method |-> method, params |-> parameters]

\* what the server may answer to a request of call()
CallResponses ==
    [kind : {"result"}, value : ResultValues \cup {NoneV}]
        \cup [kind : {"error"}, name : FaultNames, message : Messages]

\* the result of a successful Authenticate
AuthResult(path, sid, req) ==
    Dict(Put(Put(EmptyMap, "path", Str(path)), "credentials",
             Dict(Put(Put(Put(EmptyMap, "userName", req.params["userName"]),
                          "sessionId", Str(sid)), "database", Str("db1")))))

\* what the server may answer to the Authenticate request req
AuthResponses(req) ==
    {[kind |-> "result", value |-> AuthResult(p, s, req)] : p \in Paths, s \in SessionIds}
        \cup {[kind |-> "result", value |-> NoneV],
              [kind |-> "result", value |-> Dict(EmptyMap)]}
        \cup [kind : {"error"}, name : FaultNames, message : Messages]

\* _process: a decoded response is a raised fault or the result field
MyGeotabException(r) == [type |-> "MyGeotabException", name |-> r.name, message |-> r.message]

(* ------------------------------- state -------------------------------- *)

VARIABLES
    credentials,        \* self.credentials
    reauthorize_count,  \* self._reauthorize_count
    ctor,               \* the constructor's arguments (never changes)
    calls,              \* top-level invocations started so far
    task                \* per coroutine: where it is suspended and what it did

vars == <<credentials, reauthorize_count, ctor, calls, task>>

NoOutcome == [kind |-> "none"]
Return(v) == [kind |-> "return", value |-> v]
Raise(e) == [kind |-> "raise", exc |-> e]

\* pc: "idle", "query" (call suspended in _query, line 69), "reauth" (call suspended
\* in the authenticate of line 76), "auth" (a top-level authenticate suspended in
\* _query, line 170), "done".  method, params: the locals of the innermost call
\* frame.  depth: the call frames below it.  args: the arguments of the top-level
\* invocation.  sent: the requests posted, in order.  resp: the last response
\* received, respto: the index in sent of the request it answers.  outcome: what the
\* top-level invocation returned or raised.
IdleTask ==
    [pc |-> "idle", op |-> "none", depth |-> 0, method |-> NoneV, params |-> EmptyMap,
     args |-> NoneV, sent |-> <<>>, resp |-> [kind |-> "none"], respto |-> 0,
     outcome |-> NoOutcome]

Init ==
    /\ ctor \in CtorArgs
    /\ credentials = Credentials(Str("u"), ctor.session_id, NoneV, Str(DefaultServer),
                                 ctor.password)
    /\ reauthorize_count = 0
    /\ calls = 0
    /\ task = [c \in Tasks |-> IdleTask]

(* -------------------------------- call -------------------------------- *)

\* lines 61-66 without the injection of the credentials
call_parameters_without_credentials(type_name, parameters, cred) ==
    IF Truthy(type_name) THEN Put(parameters, "typeName", type_name) ELSE parameters

\* lines 61-66: the parameters call sends
call_parameters(type_name, parameters, cred) ==
    LET p1 == IF Truthy(type_name) THEN Put(parameters, "typeName", type_name)
                                   ELSE parameters
    IN  IF "credentials" \notin DOMAIN p1 /\ Truthy(cred.session_id)
           THEN Put(p1, "credentials", get_param(cred))
           ELSE p1

\* lines 166-168: the parameters of the Authenticate request
auth_data(cred) ==
    Put(Put(Put(Put(EmptyMap, "database", cred.database), "userName", cred.username),
            "password", cred.password), "global", Bool(TRUE))

\* lines 166-170: authenticate() up to its suspension in _query
authenticate_enter(t, cred, pc) ==
    [t EXCEPT !.pc = pc,
              !.sent = Append(@, Request(cred.server, Str("Authenticate"), auth_data(cred)))]

\* line 57: the argument check of call
method_missing(method) == method = NoneV

\* lines 57-69: a call frame from its entry to its first suspension; t is the
\* task before the frame is entered, d the frames below it
call_enter(t, method, type_name, parameters, cred, d) ==
    IF method_missing(method)
       THEN [t EXCEPT !.pc = "done",
                      !.outcome = Raise([type |-> "Exception",
                                         message |-> "Must specify a method name"])]
    ELSE IF cred = NoneV
       THEN [t EXCEPT !.pc = "done", !.outcome = Raise([type |-> "AttributeError"])]
    ELSE LET p == call_parameters(type_name, parameters, cred)
         IN  [t EXCEPT !.pc = "query", !.depth = d, !.method = method, !.params = p,
                       !.sent = Append(@, Request(cred.server, method, p))]

\* lines 115-121: the call search(type_name, **parameters) makes
search_call(type_name, parameters) ==
    IF DOMAIN parameters # {}
       THEN LET results_limit == Lookup(parameters, "resultsLimit")
                rest == IF results_limit # NoneV THEN Remove(parameters, "resultsLimit")
                                                 ELSE parameters
            IN  [method |-> Str("Get"), type_name |-> type_name,
                 parameters |-> Put(Put(EmptyMap, "resultsLimit", results_limit),
                                    "search", Dict(rest))]
       ELSE [method |-> Str("Get"), type_name |-> type_name, parameters |-> EmptyMap]

\* line 90 with method and params swapped
format_calls_swapped(cs) ==
    [i \in 1..Len(cs) |->
        Dict(Put(Put(EmptyMap, "method", cs[i].l[2]), "params", cs[i].l[1]))]

\* line 90: formatted_calls
format_calls(cs) ==
    [i \in 1..Len(cs) |->
        Dict(Put(Put(EmptyMap, "method", cs[i].l[1]), "params", cs[i].l[2]))]

\* lines 90-91: the call multi_call(*cs) makes
multi_call_call(cs) ==
    [method |-> Str("ExecuteMultiCall"), type_name |-> NoneV,
     parameters |-> Put(EmptyMap, "calls", List(format_calls(cs)))]

\* line 74 without its test of the counter
should_reauthorize_unbounded(exc, count) == exc.name = IUE

\* line 74 without its test of the fault's name
should_reauthorize_any_fault(exc, count) == count = 0

\* line 74: whether call answers the fault exc by re-authenticating and retrying
should_reauthorize(exc, count) == exc.name = IUE /\ count = 0

\* line 70 with its test inverted
is_success_inverted(result) == result = NoneV

\* line 70: whether call takes result for a success
is_success(result) == result # NoneV

\* lines 173-175 without the test for "ThisServer"
resolve_server_always_new(new_server, current) == new_server

\* lines 173-175: the server of the new Credentials
resolve_server(new_server, current) ==
    IF new_server # Str("ThisServer") THEN new_server ELSE current

\* lines 171-185 with the session dropped when the Authenticate request faults
authenticate_resume_clears(cred, r) ==
    IF r.kind = "error"
       THEN [cred |-> [cred EXCEPT !.session_id = NoneV],
             out  |-> IF r.name = IUE
                         THEN Raise([type |-> "AuthenticationException",
                                     username |-> cred.username,
                                     database |-> cred.database,
                                     server |-> cred.server])
                         ELSE Raise(MyGeotabException(r))]
    ELSE IF Truthy(r.value)
       THEN LET c == r.value.d["credentials"].d
                new == Credentials(c["userName"], c["sessionId"], c["database"],
                                   resolve_server(r.value.d["path"], cred.server), NoneV)
            IN  [cred |-> new, out |-> Return(new)]
    ELSE [cred |-> cred, out |-> Return(NoneV)]

\* lines 171-185: authenticate() from the response r on; cred is self.credentials
\* when the coroutine resumes
authenticate_resume(cred, r) ==
    IF r.kind = "error"
       THEN [cred |-> cred,
             out  |-> IF r.name = IUE
                         THEN Raise([type |-> "AuthenticationException",
                                     username |-> cred.username,
                                     database |-> cred.database,
                                     server |-> cred.server])
                         ELSE Raise(MyGeotabException(r))]
    ELSE IF Truthy(r.value)
       THEN LET new_server == r.value.d["path"]
                server == resolve_server(new_server, cred.server)
                c == r.value.d["credentials"].d
                new == Credentials(c["userName"], c["sessionId"], c["database"],
                                   server, NoneV)
            IN  [cred |-> new, out |-> Return(new)]
    ELSE [cred |-> cred, out |-> Return(NoneV)]

(* ------------------------------ actions ------------------------------- *)

\* a coroutine invokes call(method, type_name, **parameters)
StartCall(c, method, type_name, parameters) ==
    /\ task[c].pc \in {"idle", "done"}
    /\ calls < MaxCalls
    /\ calls' = calls + 1
    /\ task' = [task EXCEPT ![c] =
           call_enter([IdleTask EXCEPT !.op = "call",
                                       !.args = [method |-> method,
                                                 type_name |-> type_name,
                                                 parameters |-> parameters]],
                      method, type_name, parameters, credentials, 0)]
    /\ UNCHANGED <<credentials, reauthorize_count, ctor>>

\* a coroutine invokes search(type_name, **parameters)
StartSearch(c, type_name, parameters) ==
    LET a == search_call(type_name, parameters) IN
    /\ task[c].pc \in {"idle", "done"}
    /\ calls < MaxCalls
    /\ calls' = calls + 1
    /\ task' = [task EXCEPT ![c] =
           call_enter([IdleTask EXCEPT !.op = "search",
                                       !.args = [type_name |-> type_name,
                                                 parameters |-> parameters]],
                      a.method, a.type_name, a.parameters, credentials, 0)]
    /\ UNCHANGED <<credentials, reauthorize_count, ctor>>

\* a coroutine invokes multi_call(*cs)
StartMultiCall(c, cs) ==
    LET a == multi_call_call(cs) IN
    /\ task[c].pc \in {"idle", "done"}
    /\ calls < MaxCalls
    /\ calls' = calls + 1
    /\ task' = [task EXCEPT ![c] =
           call_enter([IdleTask EXCEPT !.op = "multi_call", !.args = [calls |-> cs]],
                      a.method, a.type_name, a.parameters, credentials, 0)]
    /\ UNCHANGED <<credentials, reauthorize_count, ctor>>

\* a coroutine invokes authenticate()
StartAuthenticate(c) ==
    /\ task[c].pc \in {"idle", "done"}
    /\ calls < MaxCalls
    /\ calls' = calls + 1
    /\ task' = [task EXCEPT ![c] =
           authenticate_enter([IdleTask EXCEPT !.op = "authenticate"], credentials, "auth")]
    /\ UNCHANGED <<credentials, reauthorize_count, ctor>>

\* lines 69-79: the response r to the request of call arrives
CallResponse(c) ==
    /\ task[c].pc = "query"
    /\ \E r \in CallResponses :
       LET t == [task[c] EXCEPT !.resp = r, !.respto = Len(task[c].sent)] IN
       IF r.kind = "result"
          THEN /\ reauthorize_count' = IF is_success(r.value) THEN 0 ELSE reauthorize_count
               /\ task' = [task EXCEPT ![c] =
                      [t EXCEPT !.pc = "done", !.outcome = Return(r.value)]]
       ELSE IF should_reauthorize(MyGeotabException(r), reauthorize_count)
          THEN /\ t.depth < MaxDepth
               /\ reauthorize_count' = reauthorize_count + 1
               /\ task' = [task EXCEPT ![c] = authenticate_enter(t, credentials, "reauth")]
       ELSE /\ reauthorize_count' = reauthorize_count
            /\ task' = [task EXCEPT ![c] =
                   [t EXCEPT !.pc = "done", !.outcome = Raise(MyGeotabException(r))]]
    /\ UNCHANGED <<credentials, ctor, calls>>

\* lines 171-185, and lines 77 and 57-69 when authenticate was called by call: the
\* response r to the Authenticate request arrives
AuthenticateResponse(c) ==
    /\ task[c].pc \in {"auth", "reauth"}
    /\ \E r \in AuthResponses(task[c].sent[Len(task[c].sent)]) :
       LET t == [task[c] EXCEPT !.resp = r, !.respto = Len(task[c].sent)]
           a == authenticate_resume(credentials, r)
       IN  /\ credentials' = a.cred
           /\ task' = [task EXCEPT ![c] =
                  IF t.pc = "auth" \/ a.out.kind = "raise"
                     THEN [t EXCEPT !.pc = "done", !.outcome = a.out]
                     ELSE call_enter(t, t.method, Dict(t.params), EmptyMap, a.cred,
                                     t.depth + 1)]
    /\ UNCHANGED <<reauthorize_count, ctor, calls>>

\* coroutines interleave at their suspension points; every coroutine invokes
\* call("Get", "Device") or authenticate()
Next ==
    \E c \in Tasks :
        \/ StartCall(c, Str("Get"), Str("Device"), EmptyMap)
        \/ StartAuthenticate(c)
        \/ CallResponse(c)
        \/ AuthenticateResponse(c)

Spec == Init /\ [][Next]_vars

\* every network round trip is answered: a coroutine suspended in _query resumes
FairSpec ==
    /\ Spec
    /\ \A c \in Tasks : WF_vars(CallResponse(c)) /\ WF_vars(AuthenticateResponse(c))

\* one coroutine: the top-level invocations (call, search, multi_call, authenticate)
\* follow one another, with any arguments
SeqNext ==
    \E c \in SeqTasks :
        \/ \E m \in Methods, tn \in TypeNames, kw \in Kwargs : StartCall(c, m, tn, kw)
        \/ \E tn \in TypeNames, kw \in SearchKwargs : StartSearch(c, tn, kw)
        \/ \E cs \in CallLists : StartMultiCall(c, cs)
        \/ StartAuthenticate(c)
        \/ CallResponse(c)
        \/ AuthenticateResponse(c)

SeqSpec == Init /\ [][SeqNext]_vars

(* ------------------------------ claims ------------------------------- *)

IsAuth(q) == q.method = Str("Authenticate")

\* the task's invocation is a call whose retry request (the third request, after the
\* first request and the Authenticate of line 76) has been answered
RetryAnswered(t) ==
    /\ t.op = "call"
    /\ t.respto = 3
    /\ ~IsAuth(t.sent[3])

IsFault(r, names) == r.kind = "error" /\ r.name \in names

\* C1: a call whose first request and whose retry are both answered with an
\* InvalidUserException fault raises the second fault, having sent exactly the
\* request, one Authenticate and one retry.
C1_SecondFaultPropagates ==
    \A c \in Tasks :
        LET t == task[c] IN
        (RetryAnswered(t) /\ IsFault(t.resp, {IUE}))
            => /\ t.pc = "done"
               /\ t.outcome = Raise(MyGeotabException(t.resp))
               /\ Len(t.sent) = 3
               /\ ~IsAuth(t.sent[1]) /\ IsAuth(t.sent[2])

C1_Witness ==
    \E c \in Tasks :
        /\ RetryAnswered(task[c]) /\ IsFault(task[c].resp, {IUE})
        /\ task[c].pc = "done"
        /\ task[c].sent[2].params["password"] = Str("pw")

\* C2: a call whose first request is answered with an InvalidUserException fault and
\* whose retry is answered with a non-null result returns that result, and the
\* reauthorize counter is 0 when it has returned.
C2_RetryResultReturned ==
    \A c \in Tasks :
        LET t == task[c] IN
        (RetryAnswered(t) /\ t.resp.kind = "result" /\ t.resp.value # NoneV)
            => /\ t.pc = "done"
               /\ t.outcome = Return(t.resp.value)
               /\ reauthorize_count = 0

C2_Witness ==
    \E c \in Tasks :
        /\ RetryAnswered(task[c])
        /\ task[c].resp.kind = "result" /\ task[c].resp.value = Str("r2")
        /\ task[c].outcome = Return(Str("r2"))

\* the mappings p and q have the same keys and values, the credentials key aside
SameButCredentials(p, q) ==
    /\ DOMAIN p \ {"credentials"} = DOMAIN q \ {"credentials"}
    /\ \A k \in DOMAIN p \ {"credentials"} : p[k] = q[k]

\* C3: the retry request of a call has the method of its first request and the same
\* params, typeName and the caller's parameters included, the credentials aside.
C3_RetrySameRequest ==
    \A c \in Tasks :
        LET t == task[c] IN
        (t.op = "call" /\ Len(t.sent) >= 3 /\ ~IsAuth(t.sent[3]))
            => /\ t.sent[3].method = t.sent[1].method
               /\ SameButCredentials(t.sent[1].params, t.sent[3].params)

\* C4: every call whose first request is answered with an InvalidUserException fault
\* re-authenticates (and then retries), whatever the calls before it did.
C4_EveryCallReauthorizes ==
    \A c \in Tasks :
        LET t == task[c] IN
        (t.op = "call" /\ t.respto = 1 /\ IsFault(t.resp, {IUE}))
            => (t.pc = "reauth" /\ Len(t.sent) = 2 /\ IsAuth(t.sent[2]))

\* C5: when a call has returned (a result or null), the reauthorize counter is 0.
C5_CounterZeroAfterReturn ==
    \A c \in Tasks :
        (task[c].op = "call" /\ task[c].pc = "done" /\ task[c].outcome.kind = "return")
            => reauthorize_count = 0

\* C6: every request call sends for its method carries a credentials parameter.
C6_CredentialsAttached ==
    \A c \in Tasks :
        \A i \in 1..Len(task[c].sent) :
            (task[c].op = "call" /\ ~IsAuth(task[c].sent[i]))
                => "credentials" \in DOMAIN task[c].sent[i].params

\* C7: on a client created with a password, every re-authentication of call sends
\* that password.
C7_ReauthWithPassword ==
    \A c \in Tasks :
        \A i \in 1..Len(task[c].sent) :
            (task[c].op = "call" /\ IsAuth(task[c].sent[i]) /\ ctor.password # NoneV)
                => task[c].sent[i].params["password"] = ctor.password

\* C8: a call whose method is null or empty has raised the invalid-argument error
\* and has sent no request.
C8_MethodRequired ==
    \A c \in Tasks :
        LET t == task[c] IN
        (t.op = "call" /\ t.args.method \in {NoneV, Str("")})
            => /\ t.pc = "done"
               /\ t.outcome = Raise([type |-> "Exception",
                                     message |-> "Must specify a method name"])
               /\ t.sent = <<>>

\* C9: the step in which a request of call (first or retry) is answered with a fault
\* other than InvalidUserException ends the call raising that very fault, sends
\* nothing, and leaves the reauthorize counter and the credentials as they were.
C9_OtherFaultPropagates ==
    [][\A c \in Tasks :
          (task[c].pc = "query" /\ task'[c] # task[c]
             /\ IsFault(task'[c].resp, FaultNames \ {IUE}))
              => /\ task'[c].pc = "done"
                 /\ task'[c].outcome = Raise(MyGeotabException(task'[c].resp))
                 /\ task'[c].sent = task[c].sent
                 /\ reauthorize_count' = reauthorize_count
                 /\ credentials' = credentials]_vars

C9_Witness ==
    \E c \in Tasks :
        /\ RetryAnswered(task[c])
        /\ IsFault(task[c].resp, FaultNames \ {IUE})
        /\ task[c].pc = "done"
        /\ reauthorize_count = 1

\* C10: an authenticate() whose Authenticate request is answered with a fault has
\* ended without a further request: an InvalidUserException as an
\* AuthenticationException carrying the userName, database and server of the request,
\* any other fault as itself.
C10_AuthenticateFault ==
    \A c \in Tasks :
        LET t == task[c] IN
        (t.respto >= 1 /\ IsAuth(t.sent[t.respto]) /\ t.resp.kind = "error")
            => /\ t.pc = "done"
               /\ Len(t.sent) = t.respto
               /\ t.outcome =
                     IF t.resp.name = IUE
                        THEN Raise([type |-> "AuthenticationException",
                                    username |-> t.sent[t.respto].params["userName"],
                                    database |-> t.sent[t.respto].params["database"],
                                    server |-> t.sent[t.respto].url])
                        ELSE Raise(MyGeotabException(t.resp))

\* the step is one in which coroutine c resumes in authenticate() with a response
AuthResumes(c) ==
    /\ task[c].pc \in {"auth", "reauth"}
    /\ task'[c] # task[c]

\* the Authenticate response r carries a session
Issues(r) == r.kind = "result" /\ Truthy(r.value)

\* C11: the step in which authenticate() receives a successful response replaces the
\* stored Credentials by ones holding the response's userName, sessionId and
\* database, with the response's path as server unless it is "ThisServer", and then
\* with the server stored until that step; a top-level authenticate() returns them.
C11_CredentialsFromResponse ==
    [][\A c \in Tasks :
          (AuthResumes(c) /\ Issues(task'[c].resp))
              => LET v == task'[c].resp.value.d
                     cr == v["credentials"].d
                 IN  /\ credentials'.username = cr["userName"]
                     /\ credentials'.session_id = cr["sessionId"]
                     /\ credentials'.database = cr["database"]
                     /\ credentials'.server =
                           IF v["path"] # Str("ThisServer") THEN v["path"]
                                                            ELSE credentials.server
                     /\ task[c].pc = "auth" => task'[c].outcome = Return(credentials')]_vars

C11_Witness ==
    \E c \in Tasks :
        /\ task[c].op = "authenticate" /\ task[c].pc = "done"
        /\ Issues(task[c].resp)
        /\ task[c].resp.value.d["path"] = Str("ThisServer")
        /\ task[c].outcome = Return(credentials)
        /\ credentials.server = Str(DefaultServer)
        /\ credentials.session_id = Str("s2")

\* C12: a search with non-empty parameters sends a Get whose params hold typeName =
\* type_name, resultsLimit = the caller's resultsLimit (null when absent) and search =
\* the caller's parameters without the resultsLimit key.
C12_SearchRequest ==
    \A c \in Tasks :
        LET t == task[c] IN
        (t.op = "search" /\ DOMAIN t.args.parameters # {})
            => /\ Len(t.sent) >= 1
               /\ t.sent[1].method = Str("Get")
               /\ Lookup(t.sent[1].params, "typeName") = t.args.type_name
               /\ "resultsLimit" \in DOMAIN t.sent[1].params
               /\ t.sent[1].params["resultsLimit"] = Lookup(t.args.parameters, "resultsLimit")
               /\ "search" \in DOMAIN t.sent[1].params
               /\ t.sent[1].params["search"] = Dict(Remove(t.args.parameters, "resultsLimit"))

\* C13: the request multi_call posts has method ExecuteMultiCall and a params.calls
\* with one {method, params} mapping per pair given, in the order given.
C13_MultiCallRequest ==
    \A c \in Tasks :
        LET t == task[c] IN
        t.op = "multi_call"
            => /\ Len(t.sent) >= 1
               /\ t.sent[1].method = Str("ExecuteMultiCall")
               /\ "calls" \in DOMAIN t.sent[1].params
               /\ LET fc == t.sent[1].params["calls"].l
                  IN  /\ Len(fc) = Len(t.args.calls)
                      /\ \A i \in 1..Len(fc) :
                            /\ DOMAIN fc[i].d = {"method", "params"}
                            /\ fc[i].d["method"] = t.args.calls[i].l[1]
                            /\ fc[i].d["params"] = t.args.calls[i].l[2]

C13_Witness ==
    \E c \in Tasks :
        /\ task[c].op = "multi_call"
        /\ Len(task[c].args.calls) = 2
        /\ task[c].args.calls[1] # task[c].args.calls[2]
        /\ Len(task[c].sent) >= 1
        /\ Len(task[c].sent[1].params["calls"].l) = 2

\* C14: no call chain nests more than one retry frame.
C14_DepthAtMostOne == \A c \in Tasks : task[c].depth <= 1

\* coroutine c is between the fault that made it re-authenticate and the end of its
\* retry
InRetry(c) ==
    \/ task[c].pc = "reauth"
    \/ task[c].pc = "query" /\ task[c].depth >= 1

\* C15: the step in which the first request of a call is answered with an
\* InvalidUserException fault while another coroutine is in its retry starts the
\* re-authentication of this call.
C15_OwnReauthorization ==
    [][\A c \in Tasks :
          (/\ task[c].pc = "query" /\ task[c].depth = 0
           /\ task'[c] # task[c]
           /\ IsFault(task'[c].resp, {IUE})
           /\ \E d \in Tasks \ {c} : InRetry(d))
              => task'[c].pc = "reauth"]_vars

\* coroutine c has just posted a retry request: it is suspended in the _query of a
\* nested call frame
RetryPosted(c) == task[c].pc = "query" /\ task[c].depth >= 1

\* the requests before the retry request are a request of call and then an
\* Authenticate, and the last response is the fault-free answer to that Authenticate
RetryOrdered(t) ==
    LET n == Len(t.sent) IN
    /\ n >= 3
    /\ ~IsAuth(t.sent[n]) /\ IsAuth(t.sent[n - 1]) /\ ~IsAuth(t.sent[n - 2])
    /\ t.respto = n - 1
    /\ t.resp.kind = "result"

\* the retry request carries the session the last response issued
RetryHoldsIssuedSession(t) ==
    /\ "credentials" \in DOMAIN t.sent[Len(t.sent)].params
    /\ t.sent[Len(t.sent)].params["credentials"].d["sessionId"]
          = t.resp.value.d["credentials"].d["sessionId"]

\* an authenticate() that raised was the last thing its coroutine sent
NothingAfterAuthFault(t) ==
    (t.respto >= 1 /\ IsAuth(t.sent[t.respto]) /\ t.resp.kind = "error")
        => (t.pc = "done" /\ Len(t.sent) = t.respto)

C17_CounterZeroOrOne == reauthorize_count \in {0, 1}

C17_Witness ==
    \E c, d \in Tasks :
        /\ c # d
        /\ reauthorize_count = 1
        /\ InRetry(c)
        /\ task[d].pc = "done" /\ task[d].respto = 1 /\ IsFault(task[d].resp, {IUE})

\* coroutine c is suspended in a network round trip
Suspended(c) == task[c].pc \in {"query", "reauth", "auth"}

\* what is left to do: 5 for an invocation not started, 3 for a suspended chain plus
\* the round trips it is sure to need (2 before a re-authentication is answered, 1
\* otherwise), and 2 while the counter allows one more re-authentication
Rank ==
    5 * (MaxCalls - calls)
      + 3 * Cardinality({c \in Tasks : Suspended(c)})
      + Cardinality({c \in Tasks : Suspended(c)})
      + Cardinality({c \in Tasks : task[c].pc = "reauth"})
      + (IF reauthorize_count = 0 THEN 2 ELSE 0)

\* C18: every step of a chain brings the client closer to the end of all chains (so
\* no chain re-authenticates and retries forever), and when every round trip is
\* answered every suspended chain completes.
C18_EveryChainCompletes ==
    /\ [][Rank' < Rank]_vars
    /\ \A c \in Tasks : Suspended(c) ~> (task[c].pc = "done")

C18_Witness ==
    \E c, d \in Tasks :
        /\ c # d
        /\ task[c].pc = "done" /\ task[c].depth = 2
        /\ task[d].pc = "done" /\ task[d].op = "call"

\* C19: a step in which authenticate() receives a fault or a null or empty result
\* leaves the stored Credentials as they are, and the stored Credentials change only
\* in a step in which authenticate() receives a successful response, to Credentials
\* made of that response.
C19_CredentialsOnlyBySuccess ==
    [][/\ \A c \in Tasks :
             (AuthResumes(c) /\ ~Issues(task'[c].resp)) => credentials' = credentials
       /\ credentials' # credentials
            => \E c \in Tasks :
                  /\ AuthResumes(c) /\ Issues(task'[c].resp)
                  /\ LET v == task'[c].resp.value.d
                         cr == v["credentials"].d
                     IN  \E server \in {v["path"], credentials.server} :
                            credentials' = Credentials(cr["userName"], cr["sessionId"],
                                                       cr["database"], server, NoneV)]_vars

C19_Witness ==
    \E c \in Tasks :
        /\ task[c].pc = "done"
        /\ task[c].respto >= 1 /\ IsAuth(task[c].sent[task[c].respto])
        /\ task[c].resp = [kind |-> "result", value |-> Dict(EmptyMap)]
        /\ credentials.session_id = Str("s1")

\* C20: the step in which authenticate() receives a successful response with path
\* "ThisServer" stores the server its Authenticate request was sent to.
C20_ThisServerIsRequestServer ==
    [][\A c \in Tasks :
          (/\ AuthResumes(c) /\ Issues(task'[c].resp)
           /\ task'[c].resp.value.d["path"] = Str("ThisServer"))
              => credentials'.server = task[c].sent[Len(task[c].sent)].url]_vars

=============================================================================
